---- MODULE Spec2Model ----
(***************************************************************************)
(* Model of the invoice checker front end: the useInvoiceAnalysis hook     *)
(* (frontend/src/hooks/useInvoiceAnalysis.ts), the report normalisation    *)
(* inside analyzeInvoiceUrl, and the App component that drives the hook    *)
(* (frontend/src/App.tsx).                                                 *)
(*                                                                         *)
(* Representation.  A JavaScript string is a sequence of one-character     *)
(* strings, so that trim, startsWith, replace, split and join are computed *)
(* character by character.  A nullable value is a sequence of length at    *)
(* most one: Null is the empty sequence and Some(v) holds v.  A JSON       *)
(* object is a record whose domain is the set of keys it carries; a key    *)
(* that is absent reads as undefined.  Enumerated TypeScript literals      *)
(* ("paypal", "missing", ...) are TLA+ strings.                            *)
(***************************************************************************)
EXTENDS Integers, Sequences, FiniteSets, TLC

\* ------------------------------------------------------------------ bounds
\* Longest report, in lines, that the bounded log set enumerates.
MaxLines == 3
\* Most requests the model lets be in flight at once.
MaxInFlight == 2

\* ------------------------------------------------------- nullable values
Null == <<>>
Some(v) == <<v>>

\* --------------------------------------------------------- string helpers
\* Characters removed by String.prototype.trim that can occur here.
WhiteSpace == {" ", "\t", "\r", "\n"}

RECURSIVE TrimStart(_)
TrimStart(s) ==
  IF s # <<>> /\ Head(s) \in WhiteSpace THEN TrimStart(Tail(s)) ELSE s

RECURSIVE TrimEnd(_)
TrimEnd(s) ==
  IF s # <<>> /\ s[Len(s)] \in WhiteSpace
    THEN TrimEnd(SubSeq(s, 1, Len(s) - 1))
    ELSE s

\* Trim left out: the string is used as it stands.
TrimNone(s) == s

\* Only the leading white space removed.
TrimLeadingOnly(s) == TrimStart(s)

\* String.prototype.trim
Trim(s) == TrimEnd(TrimStart(s))

\* String.prototype.startsWith
StartsWith(s, p) == Len(s) >= Len(p) /\ SubSeq(s, 1, Len(p)) = p

\* String.prototype.indexOf, 1-based; 0 when p does not occur in s.
IndexOf(s, p) ==
  LET hits == {i \in 1..(Len(s) - Len(p) + 1) : SubSeq(s, i, i + Len(p) - 1) = p}
  IN  IF hits = {} THEN 0 ELSE CHOOSE i \in hits : \A j \in hits : i <= j

\* String.prototype.replace with a string pattern: the first occurrence only.
Replace(s, p, r) ==
  LET i == IndexOf(s, p)
  IN  IF i = 0 THEN s
      ELSE SubSeq(s, 1, i - 1) \o r \o SubSeq(s, i + Len(p), Len(s))

\* String.prototype.split with a non-empty string separator.
RECURSIVE Split(_, _)
Split(s, sep) ==
  LET i == IndexOf(s, sep)
  IN  IF i = 0 THEN <<s>>
      ELSE <<SubSeq(s, 1, i - 1)>> \o Split(SubSeq(s, i + Len(sep), Len(s)), sep)

\* Array.prototype.join
RECURSIVE Join(_, _)
Join(parts, sep) ==
  IF parts = <<>> THEN <<>>
  ELSE IF Len(parts) = 1 THEN parts[1]
  ELSE parts[1] \o sep \o Join(Tail(parts), sep)

\* String.prototype.substring(from) with a 0-based start.
Substring(s, from) == SubSeq(s, from + 1, Len(s))

\* Array.prototype.slice(from) with a 0-based start.
Slice(a, from) == SubSeq(a, from + 1, Len(a))

\* ------------------------------------------------------ literals of the code
LF == <<"\n">>
ErrorsHeader == <<"E", "r", "r", "o", "r", "s", " ", "(">>
ApprovedHeader == <<"A", "p", "p", "r", "o", "v", "e", "d", " ", "(">>
MissingPrefix == <<"-", " ", "M", "I", "S", "S", "I", "N", "G", ":">>
ErrorPrefix == <<"-", " ", "E", "R", "R", "O", "R", ":">>
WarningPrefix == <<"-", " ", "W", "A", "R", "N", "I", "N", "G", ":">>
DashPrefix == <<"-", " ">>
FoundMarker == <<" ", "(", "f", "o", "u", "n", "d", ":">>
ColonSpace == <<":", " ">>
PassStatus == <<"p", "a", "s", "s">>
EmptyString == <<>>

\* ------------------------------------------------------------ line parser
\* The accumulators of one run of the loop over the lines.
ParserInit ==
  [currentSection |-> "", checks |-> <<>>, missingItems |-> <<>>, warnings |-> <<>>]

Check(requirement, status, foundValue) ==
  [requirement |-> requirement, status |-> status,
   found_value |-> foundValue, comment |-> EmptyString]

\* The requirement of a "- ERROR:" line with the remainder not trimmed.
ErrorRequirementNoTrim(trimmed) ==
  Split(Replace(trimmed, ErrorPrefix, EmptyString), FoundMarker)[1]

\* The requirement text of a "- ERROR:" line.
ErrorRequirement(trimmed) ==
  Split(Trim(Replace(trimmed, ErrorPrefix, EmptyString)), FoundMarker)[1]

\* The present check with found_value taken from the second segment alone.
ApprovedCheckSecondOnly(trimmed) ==
  LET parts == Split(Substring(trimmed, 2), ColonSpace)
      foundValue == IF Len(parts) > 1 THEN Some(parts[2]) ELSE Null
  IN  Check(parts[1], "present", foundValue)

\* The present check of a "- " line in the approved section.
ApprovedCheck(trimmed) ==
  LET parts == Split(Substring(trimmed, 2), ColonSpace)
      foundValue == IF Len(parts) > 1 THEN Some(Join(Slice(parts, 1), ColonSpace))
                    ELSE Null
  IN  Check(parts[1], "present", foundValue)

\* The "- MISSING:" branch with missing_items deduplicated.
MissingBranchDedup(st, trimmed) ==
  LET requirement == Trim(Replace(trimmed, MissingPrefix, EmptyString))
  IN  [st EXCEPT !.checks = Append(@, Check(requirement, "missing", Null)),
                 !.missingItems =
                   IF \E i \in 1..Len(@) : @[i] = requirement THEN @
                   ELSE Append(@, requirement)]

\* The "- MISSING:" branch with missing checks put ahead of the others.
MissingBranchFront(st, trimmed) ==
  LET requirement == Trim(Replace(trimmed, MissingPrefix, EmptyString))
  IN  [st EXCEPT !.checks = <<Check(requirement, "missing", Null)>> \o @,
                 !.missingItems = Append(@, requirement)]

\* Lines 102-104: the body of the "- MISSING:" branch.
MissingBranch(st, trimmed) ==
  LET requirement == Trim(Replace(trimmed, MissingPrefix, EmptyString))
  IN  [st EXCEPT !.checks = Append(@, Check(requirement, "missing", Null)),
                 !.missingItems = Append(@, requirement)]

\* Lines 106-107: the body of the "- ERROR:" branch.
ErrorBranch(st, trimmed) ==
  [st EXCEPT !.checks = Append(@, Check(ErrorRequirement(trimmed), "unclear", Null))]

\* The "- WARNING:" branch recording warnings of the errors section only.
WarningBranchErrorsOnly(st, trimmed) ==
  IF st.currentSection = "errors"
    THEN [st EXCEPT !.warnings = Append(@, Trim(Replace(trimmed, WarningPrefix, EmptyString)))]
    ELSE st

\* Line 109: the body of the "- WARNING:" branch.
WarningBranch(st, trimmed) ==
  [st EXCEPT !.warnings = Append(@, Trim(Replace(trimmed, WarningPrefix, EmptyString)))]

\* Lines 111-114: the body of the approved-section branch.
ApprovedBranch(st, trimmed) ==
  [st EXCEPT !.checks = Append(@, ApprovedCheck(trimmed))]

\* The loop body with a blank line ending the current section.
ParseLineBlankResets(st, line) ==
  LET trimmed == Trim(line)
  IN  IF trimmed = EmptyString
        THEN [st EXCEPT !.currentSection = ""]
      ELSE IF StartsWith(trimmed, ErrorsHeader)
        THEN [st EXCEPT !.currentSection = "errors"]
      ELSE IF StartsWith(trimmed, ApprovedHeader)
        THEN [st EXCEPT !.currentSection = "approved"]
      ELSE IF StartsWith(trimmed, MissingPrefix)
        THEN MissingBranch(st, trimmed)
      ELSE IF StartsWith(trimmed, ErrorPrefix)
        THEN ErrorBranch(st, trimmed)
      ELSE IF StartsWith(trimmed, WarningPrefix)
        THEN WarningBranch(st, trimmed)
      ELSE IF st.currentSection = "approved" /\ StartsWith(trimmed, DashPrefix)
        THEN ApprovedBranch(st, trimmed)
      ELSE st

\* The loop body with the approved-section rule tested ahead of the
\* MISSING, ERROR and WARNING rules.
ParseLineApprovedFirst(st, line) ==
  LET trimmed == Trim(line)
  IN  IF StartsWith(trimmed, ErrorsHeader)
        THEN [st EXCEPT !.currentSection = "errors"]
      ELSE IF StartsWith(trimmed, ApprovedHeader)
        THEN [st EXCEPT !.currentSection = "approved"]
      ELSE IF st.currentSection = "approved" /\ StartsWith(trimmed, DashPrefix)
        THEN ApprovedBranch(st, trimmed)
      ELSE IF StartsWith(trimmed, MissingPrefix)
        THEN MissingBranch(st, trimmed)
      ELSE IF StartsWith(trimmed, ErrorPrefix)
        THEN ErrorBranch(st, trimmed)
      ELSE IF StartsWith(trimmed, WarningPrefix)
        THEN WarningBranch(st, trimmed)
      ELSE st

\* The loop body with the approved-section rule not asking for the section.
ParseLineDashAnywhere(st, line) ==
  LET trimmed == Trim(line)
  IN  IF StartsWith(trimmed, ErrorsHeader)
        THEN [st EXCEPT !.currentSection = "errors"]
      ELSE IF StartsWith(trimmed, ApprovedHeader)
        THEN [st EXCEPT !.currentSection = "approved"]
      ELSE IF StartsWith(trimmed, MissingPrefix)
        THEN MissingBranch(st, trimmed)
      ELSE IF StartsWith(trimmed, ErrorPrefix)
        THEN ErrorBranch(st, trimmed)
      ELSE IF StartsWith(trimmed, WarningPrefix)
        THEN WarningBranch(st, trimmed)
      ELSE IF StartsWith(trimmed, DashPrefix)
        THEN ApprovedBranch(st, trimmed)
      ELSE st

\* One iteration of the loop body: the if/else-if chain applied to a line.
ParseLine(st, line) ==
  LET trimmed == Trim(line)
  IN  IF StartsWith(trimmed, ErrorsHeader)
        THEN [st EXCEPT !.currentSection = "errors"]
      ELSE IF StartsWith(trimmed, ApprovedHeader)
        THEN [st EXCEPT !.currentSection = "approved"]
      ELSE IF StartsWith(trimmed, MissingPrefix)
        THEN MissingBranch(st, trimmed)
      ELSE IF StartsWith(trimmed, ErrorPrefix)
        THEN ErrorBranch(st, trimmed)
      ELSE IF StartsWith(trimmed, WarningPrefix)
        THEN WarningBranch(st, trimmed)
      ELSE IF st.currentSection = "approved" /\ StartsWith(trimmed, DashPrefix)
        THEN ApprovedBranch(st, trimmed)
      ELSE st

\* The whole loop: the lines in order, from the initial accumulators.
RECURSIVE ParseLines(_, _)
ParseLines(st, ls) ==
  IF ls = <<>> THEN st ELSE ParseLines(ParseLine(st, Head(ls)), Tail(ls))

\* The status test inverted: everything but "fail" counts as approved.
OverallStatusNotFail(data) ==
  IF data.status = Some(<<"f", "a", "i", "l">>) THEN "missing_information" ELSE "approved"

\* data.status === "pass" ? "approved" : "missing_information"
OverallStatus(data) ==
  IF data.status = Some(PassStatus) THEN "approved" ELSE "missing_information"

\* The summary with a placeholder text where the report has none.
SummaryOfPlaceholder(data) ==
  IF "summary" \in DOMAIN data /\ data.summary # Null /\ data.summary # Some(EmptyString)
    THEN data.summary[1]
    ELSE <<"n", "/", "a">>

\* data.summary || "": undefined, null and "" are all falsy.
SummaryOf(data) ==
  IF "summary" \in DOMAIN data /\ data.summary # Null /\ data.summary # Some(EmptyString)
    THEN data.summary[1]
    ELSE EmptyString

\* The assembled object with invoice_type fixed to the default of the App.
BuildResultDefaultType(data, invoiceType, st) ==
  [overall_status |-> OverallStatus(data),
   invoice_type |-> "paypal",
   checks |-> st.checks,
   missing_items |-> st.missingItems,
   warnings |-> st.warnings,
   layout_suggestions |-> <<>>,
   summary |-> SummaryOf(data),
   extracted_data |-> Null]

\* The assembled object with an overall_status that looks at invoiceType:
\* a bank transfer with missing items is never approved.
BuildResultTypeDependent(data, invoiceType, st) ==
  [overall_status |->
     IF invoiceType = "bank_transfer" /\ st.missingItems # <<>>
       THEN "missing_information" ELSE OverallStatus(data),
   invoice_type |-> invoiceType,
   checks |-> st.checks,
   missing_items |-> st.missingItems,
   warnings |-> st.warnings,
   layout_suggestions |-> <<>>,
   summary |-> SummaryOf(data),
   extracted_data |-> Null]

\* The assembled object with the warnings also reported as layout suggestions.
BuildResultLayoutFromWarnings(data, invoiceType, st) ==
  [overall_status |-> OverallStatus(data),
   invoice_type |-> invoiceType,
   checks |-> st.checks,
   missing_items |-> st.missingItems,
   warnings |-> st.warnings,
   layout_suggestions |-> st.warnings,
   summary |-> SummaryOf(data),
   extracted_data |-> Null]

\* The object handed to setResult on the log-text path.
BuildResult(data, invoiceType, st) ==
  [overall_status |-> OverallStatus(data),
   invoice_type |-> invoiceType,
   checks |-> st.checks,
   missing_items |-> st.missingItems,
   warnings |-> st.warnings,
   layout_suggestions |-> <<>>,
   summary |-> SummaryOf(data),
   extracted_data |-> Null]

\* The dispatch test asking for the summary field as well.
IsLogReportWithSummary(data) ==
  "status" \in DOMAIN data /\ "logs" \in DOMAIN data /\ "summary" \in DOMAIN data

\* data.status !== undefined && data.logs !== undefined
IsLogReport(data) == "status" \in DOMAIN data /\ "logs" \in DOMAIN data

\* (data.logs as string).split("\n") throws a TypeError unless logs is a string.
LogsIsString(data) == data.logs # Null

\* The structured path with overall_status recomputed from missing_items.
PassThroughRecompute(data, invoiceType) ==
  IF "overall_status" \in DOMAIN data /\ "missing_items" \in DOMAIN data
    THEN [data EXCEPT !.overall_status =
            IF data.missing_items = <<>> THEN "approved" ELSE "missing_information"]
    ELSE data

\* The structured path with invoice_type overwritten by the caller's value.
PassThroughOverwrite(data, invoiceType) ==
  IF "invoice_type" \in DOMAIN data
    THEN [data EXCEPT !.invoice_type = invoiceType]
    ELSE data

\* Line 130: setResult(data as ValidationResult); the cast changes nothing and
\* the invoiceType argument is not consulted.
PassThrough(data, invoiceType) == data

TypeErrorMessage == "Cannot read properties of null (reading 'split')"

\* What the try block of analyzeInvoiceUrl does with a parsed response body:
\* the value given to setResult, or the error thrown on the way.
Normalize(data, invoiceType) ==
  IF IsLogReport(data)
    THEN IF LogsIsString(data)
           THEN [ok |-> TRUE,
                 value |-> BuildResult(data, invoiceType,
                             ParseLines(ParserInit, Split(data.logs[1], LF)))]
           ELSE [ok |-> FALSE, message |-> TypeErrorMessage]
    ELSE [ok |-> TRUE, value |-> PassThrough(data, invoiceType)]

\* ------------------------------------------------------------------ inputs
InvoiceTypes == {"paypal", "bank_transfer"}
Languages == {"da", "en"}

\* The log text of the worked example, one line per element.
ExampleLines ==
  << <<"E", "r", "r", "o", "r", "s", " ", "(", "1", ")">>,
     <<"-", " ", "M", "I", "S", "S", "I", "N", "G", ":", " ", "T", "a", "x", " ", "n", "u", "m", "b", "e", "r">>,
     <<"-", " ", "W", "A", "R", "N", "I", "N", "G", ":", " ", "L", "o", "w", " ", "c", "o", "n", "f", "i", "d", "e", "n", "c", "e">>,
     <<"A", "p", "p", "r", "o", "v", "e", "d", " ", "(", "1", ")">>,
     <<"-", " ", "I", "n", "v", "o", "i", "c", "e", " ", "d", "a", "t", "e", ":", " ", "2", "0", "2", "4", "-", "0", "1", "-", "1", "5">> >>

\* Lines every report up to MaxLines lines is assembled from: both headers,
\* each entry prefix, an approved entry with and without a value, a blank.
Vocabulary ==
  { <<"E", "r", "r", "o", "r", "s", " ", "(", "1", ")">>,
    <<"A", "p", "p", "r", "o", "v", "e", "d", " ", "(", "1", ")">>,
    <<"-", " ", "M", "I", "S", "S", "I", "N", "G", ":", " ", "T", "a", "x", " ", "n", "u", "m", "b", "e", "r">>,
    <<"-", " ", "M", "I", "S", "S", "I", "N", "G", ":">>,
    <<"-", " ", "E", "R", "R", "O", "R", ":", " ", "S", "e", "n", "d", "e", "r", " ", "e", "m", "a", "i", "l", " ", "(", "f", "o", "u", "n", "d", ":", " ", "n", "o", "t", " ", "a", "n", " ", "e", "m", "a", "i", "l", ")">>,
    <<"-", " ", "W", "A", "R", "N", "I", "N", "G", ":", " ", "L", "o", "w", " ", "c", "o", "n", "f", "i", "d", "e", "n", "c", "e">>,
    <<"-", " ", "P", "a", "i", "d", ":", " ", "a", "t", ":", " ", "1", "0", ":", " ", "3", "0">>,
    <<"-", " ", "S", "i", "g", "n", "e", "d">>,
    <<>> }

\* Further lines, used in the reports of fewer than MaxLines lines: entries
\* with an empty label or value, surrounding white space, a header that
\* holds an entry prefix, and a line no rule matches.
EdgeLines ==
  { <<"-", " ", "E", "R", "R", "O", "R", ":", " ", "(", "f", "o", "u", "n", "d", ":", " ", "x", ")">>,
    <<"-", " ", ":", " ", "v", "a", "l", "u", "e">>,
    <<"-", " ", "P", "a", "i", "d", ":", " ">>,
    <<" ", " ", "-", " ", "M", "I", "S", "S", "I", "N", "G", ":", " ", "V", "A", "T", " ", "\r">>,
    <<"E", "r", "r", "o", "r", "s", " ", "(", "-", " ", "M", "I", "S", "S", "I", "N", "G", ":", " ", "x">>,
    <<"T", "o", "t", "a", "l", ":", " ", "3", " ", "c", "h", "e", "c", "k", "s">>,
    <<"-", " ", "I", "n", "v", "o", "i", "c", "e", " ", "d", "a", "t", "e", ":", " ", "2", "0", "2", "4", "-", "0", "1", "-", "1", "5">> }

\* All sequences over S of length at most n.
RECURSIVE SeqsUpTo(_, _)
SeqsUpTo(S, n) ==
  IF n = 0 THEN {<<>>}
  ELSE LET shorter == SeqsUpTo(S, n - 1)
       IN  shorter \cup {Append(q, x) : q \in {r \in shorter : Len(r) = n - 1}, x \in S}

\* The text of a report: its lines joined by line feeds.
LogTexts ==
  {Join(ls, LF) : ls \in (SeqsUpTo(Vocabulary, MaxLines) \ {<<>>})}
  \cup {Join(ls, LF) : ls \in (SeqsUpTo(Vocabulary \cup EdgeLines, MaxLines - 1) \ {<<>>})}
  \cup {Join(ExampleLines, LF)}

FailStatus == <<"f", "a", "i", "l">>
SummaryText == <<"2", " ", "i", "s", "s", "u", "e", "s">>

\* {status, logs} reports over every log text.
LogReports ==
  {[status |-> Some(s), logs |-> Some(l)] : s \in {PassStatus, FailStatus}, l \in LogTexts}

\* A structured response body, as the server builds it.
StructuredCheck ==
  [requirement |-> <<"I", "B", "A", "N">>, status |-> "present",
   found_value |-> Some(<<"D", "K", "5", "0">>), comment |-> <<"o", "k">>]

StructuredResults ==
  {[overall_status |-> o, invoice_type |-> t,
    checks |-> <<StructuredCheck>>, missing_items |-> <<>>, warnings |-> <<>>,
    layout_suggestions |->
      <<[section |-> <<"H", "e", "a", "d", "e", "r">>, issue |-> <<"N", "o", " ", "l", "o", "g", "o">>, suggestion |-> <<"A", "d", "d", " ", "l", "o", "g", "o">>]>>,
    summary |-> SummaryText,
    extracted_data |-> Some([sender_name |-> Some(<<"A", "c", "m", "e">>), invoice_number |-> Null])]
   : o \in {"approved", "missing_information", "invalid"}, t \in InvoiceTypes}

\* Reports that vary the fields around the log text: summary present, empty
\* or null, status null, logs null, and bodies lacking one of the two fields.
VariantReports ==
  LET ex == Some(Join(ExampleLines, LF))
  IN  {[status |-> Some(s), logs |-> ex, summary |-> m] :
          s \in {PassStatus, FailStatus}, m \in {Null, Some(EmptyString), Some(SummaryText)}}
      \cup {[status |-> Null, logs |-> ex],
            [status |-> Some(<<"P", "A", "S", "S">>), logs |-> ex],
            [status |-> Some(FailStatus), logs |-> Null],
            [status |-> Some(PassStatus), logs |-> Null, summary |-> Some(SummaryText)],
            [status |-> Some(PassStatus)],
            [status |-> Some(FailStatus), summary |-> Some(SummaryText)],
            [logs |-> ex],
            [logs |-> ex, summary |-> Some(SummaryText)]}

\* ------------------------------------------------------------------- state
VARIABLES
  selectedFile, invoiceUrl, invoiceType, language,   \* App
  result, isLoading, error,                          \* useInvoiceAnalysis
  pending,                                           \* requests awaiting their response
  data, pc, attempt,                                 \* the running continuation
  lines, idx, currentSection, checks, missingItems, warnings,
  runs                                               \* continuations run side by side

appVars == <<selectedFile, invoiceUrl, invoiceType, language>>
hookVars == <<result, isLoading, error>>
loopVars == <<lines, idx, currentSection, checks, missingItems, warnings>>
runVars ==
  <<data, pc, attempt, lines, idx, currentSection, checks, missingItems, warnings, runs>>
vars == <<selectedFile, invoiceUrl, invoiceType, language, result, isLoading, error,
          pending, data, pc, attempt, lines, idx, currentSection, checks,
          missingItems, warnings, runs>>

Request(kind, type, lang) == [kind |-> kind, invoiceType |-> type, language |-> lang]

\* err instanceof Error ? err.message : language === "da" ? ... : ...
CatchMessage(err, lang) ==
  IF err.isError THEN err.message
  ELSE IF lang = "da" THEN "Der opstod en uventet fejl"
  ELSE "An unexpected error occurred"

\* ------------------------------------------- one request, statement by statement
\* analyzeInvoiceUrl has cleared the hook state, fetch has resolved with an OK
\* response and response.json() has produced data.
InitParse ==
  /\ \/ /\ data \in LogReports
        /\ invoiceType = "paypal"
        /\ language = "da"
     \/ /\ data \in VariantReports \cup StructuredResults
        /\ invoiceType \in InvoiceTypes
        /\ language \in Languages
  /\ selectedFile = Null
  /\ invoiceUrl = <<"u">>
  /\ pending = <<Request("url", invoiceType, language)>>
  /\ isLoading = TRUE
  /\ result = Null
  /\ error = Null
  /\ pc = "fetched"
  /\ attempt = 1
  /\ lines = <<>>
  /\ idx = 1
  /\ currentSection = ""
  /\ checks = <<>>
  /\ missingItems = <<>>
  /\ warnings = <<>>
  /\ runs = <<>>

\* Lines 85-93 and 128-138: the dispatch on the shape of data.
Dispatch ==
  /\ pc = "fetched"
  /\ IF IsLogReport(data)
       THEN IF LogsIsString(data)
              THEN /\ lines' = Split(data.logs[1], LF)
                   /\ idx' = 1
                   /\ currentSection' = ""
                   /\ checks' = <<>>
                   /\ missingItems' = <<>>
                   /\ warnings' = <<>>
                   /\ pc' = "loop"
                   /\ UNCHANGED <<hookVars, pending>>
              ELSE /\ error' = Some(CatchMessage([isError |-> TRUE, message |-> TypeErrorMessage],
                                                 pending[1].language))
                   /\ isLoading' = FALSE
                   /\ pending' = <<>>
                   /\ pc' = "done"
                   /\ UNCHANGED <<result, loopVars>>
       ELSE /\ result' = Some(PassThrough(data, pending[1].invoiceType))
            /\ isLoading' = FALSE
            /\ pending' = <<>>
            /\ pc' = "done"
            /\ UNCHANGED <<error, loopVars>>
  /\ UNCHANGED <<appVars, data, attempt, runs>>

\* Lines 95-116: one iteration of the for loop.
ParseStep ==
  /\ pc = "loop"
  /\ idx <= Len(lines)
  /\ LET st == ParseLine([currentSection |-> currentSection, checks |-> checks,
                          missingItems |-> missingItems, warnings |-> warnings],
                         lines[idx])
     IN  /\ currentSection' = st.currentSection
         /\ checks' = st.checks
         /\ missingItems' = st.missingItems
         /\ warnings' = st.warnings
  /\ idx' = idx + 1
  /\ UNCHANGED <<appVars, hookVars, pending, data, pc, attempt, lines, runs>>

\* Lines 118-127 and 136-138: setResult with the assembled object, then finally.
Finish ==
  /\ pc = "loop"
  /\ idx > Len(lines)
  /\ result' = Some(BuildResult(data, pending[1].invoiceType,
                                [currentSection |-> currentSection, checks |-> checks,
                                 missingItems |-> missingItems, warnings |-> warnings]))
  /\ isLoading' = FALSE
  /\ pending' = <<>>
  /\ pc' = "done"
  /\ UNCHANGED <<appVars, error, data, attempt, loopVars, runs>>

\* A second analyzeInvoiceUrl call whose response body is the ValidationResult
\* the first call produced from log text (its JSON serialisation parsed back;
\* the value holds only strings, nulls, arrays and objects, which JSON keeps).
Resubmit ==
  /\ pc = "done"
  /\ attempt = 1
  /\ result # Null
  /\ IsLogReport(data)
  /\ \E type \in InvoiceTypes :
       /\ invoiceType' = type
       /\ pending' = <<Request("url", type, language)>>
  /\ data' = result[1]
  /\ isLoading' = TRUE
  /\ result' = Null
  /\ error' = Null
  /\ pc' = "fetched"
  /\ attempt' = attempt + 1
  /\ UNCHANGED <<selectedFile, invoiceUrl, language, loopVars, runs>>

NextParse == Dispatch \/ ParseStep \/ Finish \/ Resubmit

SpecParse == InitParse /\ [][NextParse]_vars

\* --------------------------------------------------------------- the hook
\* reset(): setResult(null); setError(null); setIsLoading(false).
ResetHook ==
  /\ result' = Null
  /\ error' = Null
  /\ isLoading' = FALSE

\* The start of an analysis with setResult(null) left out.
StartAnalysisKeepResult ==
  /\ isLoading' = TRUE
  /\ error' = Null
  /\ result' = result

\* The three setters at the top of analyzeInvoice and analyzeInvoiceUrl.
StartAnalysis ==
  /\ isLoading' = TRUE
  /\ error' = Null
  /\ result' = Null

\* ---------------------------------------------------------------- the App
Files == {"invoice.pdf"}
UrlTexts == {EmptyString, <<" ">>, <<"u">>}

\* const hasInput = !!selectedFile || !!invoiceUrl.trim()
HasInput == selectedFile # Null \/ Trim(invoiceUrl) # EmptyString

\* FileUpload is disabled while loading or while a URL is entered.
HandleFileSelect ==
  /\ ~(isLoading \/ Trim(invoiceUrl) # EmptyString)
  /\ \E file \in Files : selectedFile' = Some(file)
  /\ invoiceUrl' = EmptyString
  /\ ResetHook
  /\ UNCHANGED <<invoiceType, language, pending, runVars>>

\* Typing in the URL input with the selected file kept.
HandleUrlChangeKeepFile ==
  /\ ~isLoading
  /\ \E url \in UrlTexts : invoiceUrl' = url
  /\ ResetHook
  /\ UNCHANGED <<selectedFile, invoiceType, language, pending, runVars>>

\* Typing in the URL input, which is disabled while loading.
HandleUrlChange ==
  /\ ~isLoading
  /\ \E url \in UrlTexts :
       /\ invoiceUrl' = url
       /\ selectedFile' = IF url # EmptyString THEN Null ELSE selectedFile
  /\ ResetHook
  /\ UNCHANGED <<invoiceType, language, pending, runVars>>

\* The clear button inside the URL input: handleUrlChange(""), never disabled.
HandleUrlClear ==
  /\ Trim(invoiceUrl) # EmptyString
  /\ invoiceUrl' = EmptyString
  /\ ResetHook
  /\ UNCHANGED <<selectedFile, invoiceType, language, pending, runVars>>

\* The Analyze button, disabled unless hasInput && !isLoading.
HandleAnalyze ==
  /\ HasInput
  /\ ~isLoading
  /\ Len(pending) < MaxInFlight
  /\ IF Trim(invoiceUrl) # EmptyString
       THEN pending' = Append(pending, Request("url", invoiceType, language))
       ELSE pending' = Append(pending, Request("file", invoiceType, language))
  /\ StartAnalysis
  /\ UNCHANGED <<appVars, runVars>>

\* The header logo button: handleReset, never disabled.
HandleLogoReset ==
  /\ selectedFile' = Null
  /\ invoiceUrl' = EmptyString
  /\ ResetHook
  /\ UNCHANGED <<invoiceType, language, pending, runVars>>

\* The Reset button: rendered when hasInput || result, disabled while loading.
HandleReset ==
  /\ HasInput \/ result # Null
  /\ ~isLoading
  /\ selectedFile' = Null
  /\ invoiceUrl' = EmptyString
  /\ ResetHook
  /\ UNCHANGED <<invoiceType, language, pending, runVars>>

\* The type selector, disabled while loading.
HandleTypeChange ==
  /\ ~isLoading
  /\ \E type \in InvoiceTypes : invoiceType' = type
  /\ IF result # Null THEN ResetHook ELSE UNCHANGED hookVars
  /\ UNCHANGED <<selectedFile, invoiceUrl, language, pending, runVars>>

HandleLanguageChange ==
  /\ \E lang \in Languages : language' = lang
  /\ UNCHANGED <<selectedFile, invoiceUrl, invoiceType, hookVars, pending, runVars>>

\* ------------------------------------------------------------ the responses
\* What fetch and response.json() can deliver for one request.
ResponseBodies ==
  {[status |-> Some(PassStatus), logs |-> Some(Join(ExampleLines, LF)),
    summary |-> Some(SummaryText)],
   [status |-> Some(FailStatus), logs |-> Some(<<"-", " ", "M", "I", "S", "S", "I", "N", "G", ":", " ", "T", "a", "x", " ", "n", "u", "m", "b", "e", "r">>)],
   [status |-> Some(FailStatus), logs |-> Null],
   CHOOSE r \in StructuredResults :
     r.overall_status = "invalid" /\ r.invoice_type = "bank_transfer"}

Responses ==
  {[kind |-> "network"], [kind |-> "not_ok", detail |-> Some("Rate limited")],
   [kind |-> "not_ok", detail |-> Null], [kind |-> "bad_json"]}
  \cup {[kind |-> "ok", body |-> b] : b \in ResponseBodies}

\* The error thrown before a body is available, if any.
Thrown(resp) ==
  IF resp.kind = "network"
    THEN [isError |-> TRUE, message |-> "Failed to fetch"]
  ELSE IF resp.kind = "not_ok"
    THEN [isError |-> TRUE,
          message |-> IF resp.detail # Null THEN resp.detail[1] ELSE "Server error: 500"]
  ELSE [isError |-> TRUE, message |-> "Unexpected end of JSON input"]

\* The outcome with the normalisation applied on the file path too.
OutcomeNormalizeBoth(req, resp) ==
  IF resp.kind # "ok"
    THEN [ok |-> FALSE, message |-> Thrown(resp).message]
    ELSE Normalize(resp.body, req.invoiceType)

\* The outcome of the try block for a request and the response it receives.
Outcome(req, resp) ==
  IF resp.kind # "ok"
    THEN [ok |-> FALSE, message |-> Thrown(resp).message]
  ELSE IF req.kind = "url"
    THEN Normalize(resp.body, req.invoiceType)
  ELSE [ok |-> TRUE, value |-> resp.body]

RemoveAt(s, i) == SubSeq(s, 1, i - 1) \o SubSeq(s, i + 1, Len(s))

\* The continuation with setIsLoading(false) on the success path only.
CompleteNoFinally ==
  \E i \in 1..Len(pending), resp \in Responses :
    LET out == Outcome(pending[i], resp)
    IN  /\ IF out.ok
             THEN /\ result' = Some(out.value)
                  /\ isLoading' = FALSE
                  /\ UNCHANGED error
             ELSE /\ error' = Some(CatchMessage([isError |-> TRUE, message |-> out.message],
                                                pending[i].language))
                  /\ UNCHANGED <<result, isLoading>>
        /\ pending' = RemoveAt(pending, i)
        /\ UNCHANGED <<appVars, runVars>>

\* The continuation of a pending request: try, catch and finally.
Complete ==
  \E i \in 1..Len(pending), resp \in Responses :
    LET out == Outcome(pending[i], resp)
    IN  /\ IF out.ok
             THEN /\ result' = Some(out.value)
                  /\ UNCHANGED error
             ELSE /\ error' = Some(CatchMessage([isError |-> TRUE, message |-> out.message],
                                                pending[i].language))
                  /\ UNCHANGED result
        /\ isLoading' = FALSE
        /\ pending' = RemoveAt(pending, i)
        /\ UNCHANGED <<appVars, runVars>>

Init ==
  /\ selectedFile = Null
  /\ invoiceUrl = EmptyString
  /\ invoiceType = "paypal"
  /\ language = "da"
  /\ result = Null
  /\ isLoading = FALSE
  /\ error = Null
  /\ pending = <<>>
  /\ data = Null
  /\ pc = "idle"
  /\ attempt = 0
  /\ lines = <<>>
  /\ idx = 1
  /\ currentSection = ""
  /\ checks = <<>>
  /\ missingItems = <<>>
  /\ warnings = <<>>
  /\ runs = <<>>

Next ==
  \/ HandleFileSelect
  \/ HandleUrlChange
  \/ HandleUrlClear
  \/ HandleAnalyze
  \/ HandleLogoReset
  \/ HandleReset
  \/ HandleTypeChange
  \/ HandleLanguageChange
  \/ Complete

Spec == Init /\ [][Next]_vars

\* The App and the hook when every pending fetch eventually resolves or
\* rejects and its continuation is run.
LiveSpec == Init /\ [][Next]_vars /\ WF_vars(Complete)

\* ------------------------------------------- two continuations side by side
\* Two analyzeInvoiceUrl calls whose responses have both arrived.  Each entry
\* of runs holds what one invocation of the callback owns: its arguments, its
\* data, its position, and the locals declared on lines 87-93.  The steps of
\* the two are interleaved line by line, which is finer than the event loop
\* allows (a continuation runs to its end without yielding).
ConcurrentBodies ==
  {[status |-> Some(PassStatus), logs |-> Some(Join(ExampleLines, LF)),
    summary |-> Some(SummaryText)],
   [status |-> Some(FailStatus),
    logs |-> Some(Join(<<<<"A", "p", "p", "r", "o", "v", "e", "d", " ", "(", "1", ")">>, <<"-", " ", "S", "i", "g", "n", "e", "d">>, <<"-", " ", "M", "I", "S", "S", "I", "N", "G", ":", " ", "T", "a", "x", " ", "n", "u", "m", "b", "e", "r">>>>, LF))],
   [status |-> Some(FailStatus),
    logs |-> Some(Join(<<<<"-", " ", "W", "A", "R", "N", "I", "N", "G", ":", " ", "L", "o", "w", " ", "c", "o", "n", "f", "i", "d", "e", "n", "c", "e">>, <<"E", "r", "r", "o", "r", "s", " ", "(", "1", ")">>, <<"-", " ", "P", "a", "i", "d", ":", " ", "a", "t", ":", " ", "1", "0", ":", " ", "3", "0">>>>, LF))],
   [status |-> Some(FailStatus), logs |-> Null],
   CHOOSE r \in StructuredResults :
     r.overall_status = "invalid" /\ r.invoice_type = "bank_transfer"}

NewRun(body, type, lang) ==
  [request |-> Request("url", type, lang), data |-> body, pc |-> "fetched",
   lines |-> <<>>, idx |-> 1, acc |-> ParserInit, out |-> Null]

\* The accumulators every run but the first reads are those of the first run.
AccOfShared(rs, i) == rs[1].acc

\* The accumulators invocation i reads and writes: its own locals.
AccOf(rs, i) == rs[i].acc

InitConcurrent ==
  /\ selectedFile = Null
  /\ invoiceUrl = <<"u">>
  /\ invoiceType = "paypal"
  /\ language = "da"
  /\ result = Null
  /\ isLoading = TRUE
  /\ error = Null
  /\ pending = <<>>
  /\ data = Null
  /\ pc = "idle"
  /\ attempt = 0
  /\ lines = <<>>
  /\ idx = 1
  /\ currentSection = ""
  /\ checks = <<>>
  /\ missingItems = <<>>
  /\ warnings = <<>>
  /\ \E b1 \in ConcurrentBodies, b2 \in ConcurrentBodies, t1 \in InvoiceTypes, t2 \in InvoiceTypes :
       runs = <<NewRun(b1, t1, language), NewRun(b2, t2, language)>>

ConcurrentFrame ==
  UNCHANGED <<appVars, pending, data, pc, attempt, loopVars>>

\* Lines 85-93 and 128-138 for run i.
RunDispatch(i) ==
  /\ runs[i].pc = "fetched"
  /\ LET d == runs[i].data
     IN  IF IsLogReport(d)
           THEN IF LogsIsString(d)
                  THEN /\ runs' = [runs EXCEPT ![i].lines = Split(d.logs[1], LF),
                                               ![i].idx = 1,
                                               ![i].acc = ParserInit,
                                               ![i].pc = "loop"]
                       /\ UNCHANGED hookVars
                  ELSE /\ runs' = [runs EXCEPT ![i].pc = "done",
                                               ![i].out = Some([ok |-> FALSE,
                                                                message |-> TypeErrorMessage])]
                       /\ error' = Some(CatchMessage([isError |-> TRUE,
                                                      message |-> TypeErrorMessage],
                                                     runs[i].request.language))
                       /\ isLoading' = FALSE
                       /\ UNCHANGED result
           ELSE LET value == PassThrough(d, runs[i].request.invoiceType)
                IN  /\ runs' = [runs EXCEPT ![i].pc = "done",
                                            ![i].out = Some([ok |-> TRUE, value |-> value])]
                    /\ result' = Some(value)
                    /\ isLoading' = FALSE
                    /\ UNCHANGED error
  /\ ConcurrentFrame

\* Lines 95-116 for run i: one iteration of its loop.
RunStep(i) ==
  /\ runs[i].pc = "loop"
  /\ runs[i].idx <= Len(runs[i].lines)
  /\ runs' = [runs EXCEPT ![i].acc = ParseLine(AccOf(runs, i), runs[i].lines[runs[i].idx]),
                          ![i].idx = @ + 1]
  /\ UNCHANGED hookVars
  /\ ConcurrentFrame

\* Lines 118-127 and 136-138 for run i.
RunFinish(i) ==
  /\ runs[i].pc = "loop"
  /\ runs[i].idx > Len(runs[i].lines)
  /\ LET value == BuildResult(runs[i].data, runs[i].request.invoiceType, AccOf(runs, i))
     IN  /\ runs' = [runs EXCEPT ![i].pc = "done",
                                 ![i].out = Some([ok |-> TRUE, value |-> value])]
         /\ result' = Some(value)
  /\ isLoading' = FALSE
  /\ UNCHANGED error
  /\ ConcurrentFrame

NextConcurrent ==
  \E i \in 1..2 : RunDispatch(i) \/ RunStep(i) \/ RunFinish(i)

SpecConcurrent == InitConcurrent /\ [][NextConcurrent]_vars

\* ================================================================== claims
ResultFields ==
  {"overall_status", "invoice_type", "checks", "missing_items", "warnings",
   "layout_suggestions", "summary", "extracted_data"}

\* The body has the ValidationResult shape.
HasResultShape(d) == DOMAIN d = ResultFields

\* The request has completed on the log-text path with a result.
LogResultDone == pc = "done" /\ IsLogReport(data) /\ result # Null

ExampleLog == Join(ExampleLines, LF)

ExpectedExampleChecks ==
  << [requirement |-> <<"T", "a", "x", " ", "n", "u", "m", "b", "e", "r">>, status |-> "missing",
      found_value |-> Null, comment |-> <<>>],
     [requirement |-> <<"I", "n", "v", "o", "i", "c", "e", " ", "d", "a", "t", "e">>, status |-> "present",
      found_value |-> Some(<<"2", "0", "2", "4", "-", "0", "1", "-", "1", "5">>), comment |-> <<>>] >>

\* C1: the worked example parses to exactly the two checks, the one missing
\* item and the one warning of the specification, and every result of the
\* log-text path carries the sequences that applying the rule table to the
\* trimmed lines in order yields.
C1_ExampleParse ==
  LogResultDone =>
    /\ data.logs = Some(ExampleLog) =>
         /\ result[1].checks = ExpectedExampleChecks
         /\ result[1].missing_items = <<<<"T", "a", "x", " ", "n", "u", "m", "b", "e", "r">>>>
         /\ result[1].warnings = <<<<"L", "o", "w", " ", "c", "o", "n", "f", "i", "d", "e", "n", "c", "e">>>>
    /\ LET st == ParseLines(ParserInit, Split(data.logs[1], LF))
       IN  /\ result[1].checks = st.checks
           /\ result[1].missing_items = st.missingItems
           /\ result[1].warnings = st.warnings

C1_Witness ==
  /\ LogResultDone
  /\ data.logs = Some(ExampleLog)
  /\ Len(result[1].checks) = 2
  /\ Len(result[1].warnings) = 1

C3_NeverFails == pc = "done" => (result # Null /\ error = Null)

\* C4: on the log-text path overall_status is approved exactly when the
\* status field is the string "pass" and missing_information otherwise; it
\* is never invalid, whatever the lines emit.
C4_OverallStatus ==
  LogResultDone =>
    /\ result[1].overall_status = "approved" <=> data.status = Some(PassStatus)
    /\ result[1].overall_status \in {"approved", "missing_information"}

C4_Witness ==
  /\ LogResultDone
  /\ data.status = Some(PassStatus)
  /\ Len(result[1].missing_items) >= 2
  /\ \E i \in 1..Len(result[1].checks) : result[1].checks[i].status = "unclear"
  /\ result[1].overall_status = "approved"

RECURSIVE MissingRequirements(_)
MissingRequirements(cs) ==
  IF cs = <<>> THEN <<>>
  ELSE IF Head(cs).status = "missing"
    THEN <<Head(cs).requirement>> \o MissingRequirements(Tail(cs))
  ELSE MissingRequirements(Tail(cs))

\* The number of "- MISSING:" lines among the first k lines.
MissingLineCount(k) ==
  Cardinality({i \in 1..k : StartsWith(Trim(lines[i]), MissingPrefix)})

\* C5: missing_items is the sequence of requirement texts of the missing
\* checks, in order and with duplicates, all through the loop and in the
\* result; each "- MISSING:" line read so far, in any section, has added one.
C5_MissingItems ==
  /\ pc = "loop" =>
       /\ missingItems = MissingRequirements(checks)
       /\ Len(missingItems) = MissingLineCount(idx - 1)
  /\ LogResultDone =>
       /\ result[1].missing_items = MissingRequirements(result[1].checks)
       /\ Len(result[1].missing_items) = MissingLineCount(Len(lines))

C5_Witness ==
  /\ LogResultDone
  /\ currentSection = "approved"
  /\ result[1].missing_items = <<<<"T", "a", "x", " ", "n", "u", "m", "b", "e", "r">>, <<"T", "a", "x", " ", "n", "u", "m", "b", "e", "r">>>>

\* C6: each line either leaves checks alone or appends one check at the end,
\* whose status is the one its prefix calls for, so that checks follow line
\* order whatever the section or status; the result carries that sequence.
C6_CheckOrder ==
  [][/\ (pc = "loop" /\ idx <= Len(lines)) =>
          \/ checks' = checks
          \/ /\ Len(checks') = Len(checks) + 1
             /\ SubSeq(checks', 1, Len(checks)) = checks
             /\ LET c == checks'[Len(checks')]
                    t == Trim(lines[idx])
                IN  /\ c.status = "missing" => StartsWith(t, MissingPrefix)
                    /\ c.status = "unclear" => StartsWith(t, ErrorPrefix)
                    /\ c.status = "present" =>
                         (StartsWith(t, DashPrefix) /\ ~StartsWith(t, MissingPrefix)
                            /\ ~StartsWith(t, ErrorPrefix))
     /\ (pc = "loop" /\ pc' = "done") => (result' # Null /\ result'[1].checks = checks)]_vars

C6_Witness ==
  /\ LogResultDone
  /\ Len(result[1].checks) = 2
  /\ result[1].checks[1].status = "present"
  /\ result[1].checks[2].status = "missing"

\* C7: a ValidationResult produced from log text and fed back in as the
\* response body is never sent through the line parser and comes back as the
\* same value.
C7_Idempotent ==
  attempt = 2 =>
    /\ pc # "loop"
    /\ pc = "done" => (result = Some(data) /\ error = Null)

C7_Witness ==
  /\ attempt = 2
  /\ pc = "done"
  /\ result = Some(data)
  /\ data.invoice_type # invoiceType
  /\ data.checks # <<>>

\* C8: the body goes to the line parser exactly when it carries both a status
\* and a logs key; a body lacking either is stored as it is and none of its
\* text is parsed.
C8_Dispatch ==
  [][pc = "fetched" =>
       IF "status" \in DOMAIN data /\ "logs" \in DOMAIN data
         THEN \/ pc' = "loop" /\ lines' = Split(data.logs[1], LF) /\ result' = Null
              \/ data.logs = Null /\ error' # Null /\ result' = Null
         ELSE /\ pc' = "done"
              /\ result' = Some(data)
              /\ UNCHANGED <<lines, idx, checks, missingItems, warnings>>]_vars

C8_Witness ==
  /\ pc = "done"
  /\ "status" \in DOMAIN data
  /\ "logs" \notin DOMAIN data
  /\ result = Some(data)

\* C9: the step that starts an analysis and every step that runs reset()
\* leave result and error null, and result takes a new non-null value only
\* in a step that consumes one pending request.
C9_ResultDiscarded ==
  [][/\ Len(pending') > Len(pending) => (result' = Null /\ error' = Null /\ isLoading')
     /\ (HandleLogoReset \/ HandleReset \/ HandleFileSelect \/ HandleUrlChange \/ HandleUrlClear)
          => (result' = Null /\ error' = Null)
     /\ (result' # Null /\ result' # result) => Len(pending') = Len(pending) - 1]_vars

C9_Witness ==
  /\ isLoading
  /\ Len(pending) = 2
  /\ result = Null
  /\ error = Null

\* C10 as stated: every check of a result produced from log text has a
\* non-empty requirement.
C10_RequirementNonEmpty ==
  LogResultDone =>
    \A i \in 1..Len(result[1].checks) : result[1].checks[i].requirement # EmptyString

\* C11: on the log-text path the stored invoice_type is the invoiceType of the
\* request that is completing, whatever status, logs and summary hold.
C11_InvoiceTypeFromCaller ==
  [][(pc = "loop" /\ pc' = "done") =>
       (result' # Null /\ result'[1].invoice_type = pending[1].invoiceType)]_vars

C11_Witness ==
  /\ LogResultDone
  /\ result[1].invoice_type = "bank_transfer"
  /\ "summary" \in DOMAIN data
  /\ result[1].checks # <<>>

\* The outcome of the same response body for a request with another
\* invoiceType and language.
AltOutcome(type, lang) ==
  Outcome(Request("url", type, lang), [kind |-> "ok", body |-> data])

\* C12: for the same response body a request with any other language ends
\* with the same result or the same error message, and a request with any
\* other invoiceType ends with a result that differs at most in invoice_type.
C12_ContextHasNoEffect ==
  pc = "done" =>
    \A type \in InvoiceTypes, lang \in Languages :
      LET alt == AltOutcome(type, lang)
      IN  /\ alt.ok <=> result # Null
          /\ ~alt.ok =>
               error = Some(CatchMessage([isError |-> TRUE, message |-> alt.message], lang))
          /\ (alt.ok /\ IsLogReport(data)) =>
               /\ [alt.value EXCEPT !.invoice_type = result[1].invoice_type] = result[1]
               /\ alt.value.invoice_type = type
          /\ (alt.ok /\ ~IsLogReport(data)) => alt.value = result[1]

C12_Witness ==
  /\ LogResultDone
  /\ language = "en"
  /\ result[1].invoice_type = "bank_transfer"
  /\ result[1].missing_items # <<>>
  /\ result[1].overall_status = "approved"

\* C13: every result produced from log text has an empty layout_suggestions
\* and a null extracted_data.
C13_NoLayoutNoExtractedData ==
  LogResultDone =>
    /\ result[1].layout_suggestions = <<>>
    /\ result[1].extracted_data = Null

C13_Witness ==
  /\ LogResultDone
  /\ result[1].warnings # <<>>
  /\ result[1].checks # <<>>
  /\ result[1].layout_suggestions = <<>>
  /\ result[1].extracted_data = Null

\* C14: on the log-text path summary is the summary string of the report when
\* the report has one and the empty string when the field is absent or null.
C14_Summary ==
  LogResultDone =>
    IF "summary" \in DOMAIN data /\ data.summary # Null
      THEN result[1].summary = data.summary[1]
      ELSE result[1].summary = EmptyString

C14_Witness ==
  /\ LogResultDone
  /\ "summary" \in DOMAIN data
  /\ data.summary = Some(SummaryText)
  /\ result[1].summary = SummaryText

\* The responses the claim counts as a failure to fetch the report: a rejected
\* fetch, a non-OK response, and a body that is not JSON.
FetchFailures == {r \in Responses : r.kind \in {"network", "not_ok", "bad_json"}}

\* C15 as stated: a request completes either after a failure to fetch the
\* report, and then error is its message, result is null and isLoading is
\* false, or after a successful fetch, and then error is null.
C15_OnlyFetchFailuresSurface ==
  [][Len(pending') < Len(pending) =>
       \/ \E r \in FetchFailures :
            error' = Some(Thrown(r).message) /\ result' = Null /\ ~isLoading'
       \/ error' = Null /\ ~isLoading']_vars

\* C16: under every interleaving of the steps of two normalisations, each one
\* ends with the outcome it has when run alone, and a step of one leaves the
\* locals of the other untouched.
C16_RunsIndependent ==
  [][\A i \in 1..2 :
       /\ (runs'[i].pc = "done") =>
            runs'[i].out = Some(Normalize(runs[i].data, runs[i].request.invoiceType))
       /\ (runs'[i] # runs[i]) => \A j \in 1..2 : j # i => runs'[j] = runs[j]]_vars

C16_Witness ==
  /\ Len(runs) = 2
  /\ runs[1].pc = "loop" /\ runs[1].idx = 3 /\ runs[1].acc.checks # <<>>
  /\ runs[2].pc = "loop" /\ runs[2].idx = 3 /\ runs[2].acc.checks # <<>>
  /\ runs[1].acc # runs[2].acc

\* The loop is about to read a line.
AtLine == pc = "loop" /\ idx <= Len(lines)

IsHeader(t) == StartsWith(t, ErrorsHeader) \/ StartsWith(t, ApprovedHeader)

\* C17: currentSection is none when the loop starts and changes only on a
\* line that, trimmed, starts with "Errors (" or "Approved ("; a blank or any
\* other line keeps it, a later header switches it, and once it is not
\* approved no present check is emitted.
C17_SectionChangesOnHeadersOnly ==
  [][/\ (pc = "fetched" /\ pc' = "loop") => currentSection' = ""
     /\ AtLine =>
          LET t == Trim(lines[idx])
          IN  /\ currentSection' =
                   IF StartsWith(t, ErrorsHeader) THEN "errors"
                   ELSE IF StartsWith(t, ApprovedHeader) THEN "approved"
                   ELSE currentSection
              /\ (currentSection # "approved" /\ Len(checks') > Len(checks)) =>
                   checks'[Len(checks')].status # "present"
     /\ (pc = "loop" /\ ~AtLine) => currentSection' = currentSection]_vars

C17_Witness ==
  /\ LogResultDone
  /\ Len(lines) = 3
  /\ StartsWith(lines[1], ApprovedHeader)
  /\ StartsWith(lines[2], ErrorsHeader)
  /\ StartsWith(lines[3], DashPrefix)
  /\ currentSection = "errors"
  /\ result[1].checks = <<>>

\* C18: a line triggers at most one rule, the first that matches in the
\* stated order: a header line emits nothing whatever else it holds, and a
\* line starting with "- MISSING:", "- ERROR:" or "- WARNING:" yields a
\* missing check, an unclear check or a warning in every section, the
\* approved one included, and never a present check.
C18_FirstMatchWins ==
  [][AtLine =>
       LET t == Trim(lines[idx])
           last == checks'[Len(checks')]
       IN  /\ (Len(checks') - Len(checks)) + (Len(warnings') - Len(warnings)) \in {0, 1}
           /\ currentSection' # currentSection =>
                UNCHANGED <<checks, missingItems, warnings>>
           /\ IsHeader(t) => UNCHANGED <<checks, missingItems, warnings>>
           /\ (~IsHeader(t) /\ StartsWith(t, MissingPrefix)) =>
                /\ Len(checks') = Len(checks) + 1 /\ last.status = "missing"
                /\ Len(missingItems') = Len(missingItems) + 1
                /\ UNCHANGED <<warnings, currentSection>>
           /\ (~IsHeader(t) /\ StartsWith(t, ErrorPrefix)) =>
                /\ Len(checks') = Len(checks) + 1 /\ last.status = "unclear"
                /\ UNCHANGED <<missingItems, warnings, currentSection>>
           /\ (~IsHeader(t) /\ StartsWith(t, WarningPrefix)) =>
                /\ Len(warnings') = Len(warnings) + 1
                /\ UNCHANGED <<checks, missingItems, currentSection>>]_vars

C18_Witness ==
  /\ LogResultDone
  /\ Len(lines) = 3
  /\ StartsWith(lines[1], ApprovedHeader)
  /\ StartsWith(lines[2], MissingPrefix)
  /\ StartsWith(lines[3], WarningPrefix)
  /\ currentSection = "approved"
  /\ Len(result[1].checks) = 1
  /\ result[1].checks[1].status = "missing"
  /\ Len(result[1].warnings) = 1

\* The line is a header or starts with one of the three entry prefixes.
IsPrefixed(t) ==
  \/ IsHeader(t)
  \/ StartsWith(t, MissingPrefix)
  \/ StartsWith(t, ErrorPrefix)
  \/ StartsWith(t, WarningPrefix)

\* C19: a "- " line without a MISSING, ERROR or WARNING prefix appends one
\* present check while currentSection is approved and changes nothing else;
\* in the errors section or in none, such a line, like every line that
\* matches no rule, leaves checks, missing_items, warnings and
\* currentSection as they are.
C19_DashLineOnlyInApproved ==
  [][AtLine =>
       LET t == Trim(lines[idx])
           emits == currentSection = "approved" /\ StartsWith(t, DashPrefix)
       IN  /\ (~IsPrefixed(t) /\ emits) =>
                /\ Len(checks') = Len(checks) + 1
                /\ SubSeq(checks', 1, Len(checks)) = checks
                /\ checks'[Len(checks')].status = "present"
                /\ UNCHANGED <<missingItems, warnings, currentSection>>
           /\ (~IsPrefixed(t) /\ ~emits) =>
                UNCHANGED <<checks, missingItems, warnings, currentSection>>]_vars

C19_Witness ==
  /\ LogResultDone
  /\ lines = <<<<"-", " ", "S", "i", "g", "n", "e", "d">>, <<"A", "p", "p", "r", "o", "v", "e", "d", " ", "(", "1", ")">>, <<"-", " ", "S", "i", "g", "n", "e", "d">>>>
  /\ Len(result[1].checks) = 1
  /\ result[1].checks[1].status = "present"

\* The requirement the claim assigns to a trimmed "- ERROR:" line: the
\* trimmed text after the prefix, cut before the first " (found:".
ExpectedErrorRequirement(t) ==
  LET rem == Trim(SubSeq(t, Len(ErrorPrefix) + 1, Len(t)))
      k == IndexOf(rem, FoundMarker)
  IN  IF k = 0 THEN rem ELSE SubSeq(rem, 1, k - 1)

\* C20: a "- ERROR:" line appends a check with status unclear, found_value
\* null, comment "" and the requirement cut before the first " (found:" of
\* the trimmed remainder (all of it when " (found:" does not occur); the
\* line "- ERROR: Sender email (found: not an email)" gives "Sender email".
C20_ErrorLine ==
  [][(AtLine /\ StartsWith(Trim(lines[idx]), ErrorPrefix)) =>
       LET t == Trim(lines[idx])
       IN  /\ checks' = Append(checks, [requirement |-> ExpectedErrorRequirement(t),
                                        status |-> "unclear",
                                        found_value |-> Null,
                                        comment |-> EmptyString])
           /\ t = <<"-", " ", "E", "R", "R", "O", "R", ":", " ", "S", "e", "n", "d", "e", "r", " ", "e", "m", "a", "i", "l", " ", "(", "f", "o", "u", "n", "d", ":", " ", "n", "o", "t", " ", "a", "n", " ", "e", "m", "a", "i", "l", ")">> =>
                checks'[Len(checks')].requirement = <<"S", "e", "n", "d", "e", "r", " ", "e", "m", "a", "i", "l">>
           /\ t = <<"-", " ", "E", "R", "R", "O", "R", ":", " ", "(", "f", "o", "u", "n", "d", ":", " ", "x", ")">> =>
                checks'[Len(checks')].requirement = <<"(", "f", "o", "u", "n", "d", ":", " ", "x", ")">>]_vars

C20_Witness ==
  /\ LogResultDone
  /\ Len(result[1].checks) = 2
  /\ result[1].checks[1] = [requirement |-> <<"S", "e", "n", "d", "e", "r", " ", "e", "m", "a", "i", "l">>, status |-> "unclear",
                            found_value |-> Null, comment |-> EmptyString]
  /\ result[1].checks[2] = [requirement |-> <<"(", "f", "o", "u", "n", "d", ":", " ", "x", ")">>, status |-> "unclear",
                            found_value |-> Null, comment |-> EmptyString]

\* The present check the claim assigns to a trimmed "- " line: the text after
\* the two-character prefix, split at its first ": ".
ExpectedApprovedCheck(t) ==
  LET rest == SubSeq(t, 3, Len(t))
      k == IndexOf(rest, ColonSpace)
  IN  IF k = 0
        THEN [requirement |-> rest, status |-> "present",
              found_value |-> Null, comment |-> EmptyString]
        ELSE [requirement |-> SubSeq(rest, 1, k - 1), status |-> "present",
              found_value |-> Some(SubSeq(rest, k + Len(ColonSpace), Len(rest))),
              comment |-> EmptyString]

\* C21: in the approved section a "- " line is split at its first ": ":
\* requirement is the text before it and found_value all the text after it,
\* later ": " included; without a ": " requirement is the whole text and
\* found_value is null.  "- Paid: at: 10: 30" gives "Paid" and "at: 10: 30",
\* "- Signed" gives "Signed" and null.
C21_ApprovedLineSplit ==
  [][(AtLine /\ currentSection = "approved" /\ ~IsPrefixed(Trim(lines[idx]))
        /\ StartsWith(Trim(lines[idx]), DashPrefix)) =>
       LET t == Trim(lines[idx])
       IN  /\ checks' = Append(checks, ExpectedApprovedCheck(t))
           /\ t = <<"-", " ", "P", "a", "i", "d", ":", " ", "a", "t", ":", " ", "1", "0", ":", " ", "3", "0">> =>
                /\ checks'[Len(checks')].requirement = <<"P", "a", "i", "d">>
                /\ checks'[Len(checks')].found_value = Some(<<"a", "t", ":", " ", "1", "0", ":", " ", "3", "0">>)
           /\ t = <<"-", " ", "S", "i", "g", "n", "e", "d">> =>
                /\ checks'[Len(checks')].requirement = <<"S", "i", "g", "n", "e", "d">>
                /\ checks'[Len(checks')].found_value = Null]_vars

C21_Witness ==
  /\ LogResultDone
  /\ Len(result[1].checks) = 2
  /\ result[1].checks[1] = [requirement |-> <<"P", "a", "i", "d">>, status |-> "present",
                            found_value |-> Some(<<"a", "t", ":", " ", "1", "0", ":", " ", "3", "0">>), comment |-> EmptyString]
  /\ result[1].checks[2] = [requirement |-> <<"S", "i", "g", "n", "e", "d">>, status |-> "present",
                            found_value |-> Null, comment |-> EmptyString]

\* The number of "- WARNING:" lines among the first k lines.
WarningLineCount(k) ==
  Cardinality({i \in 1..k : StartsWith(Trim(lines[i]), WarningPrefix)})

\* C22: a "- WARNING:" line appends its trimmed remainder to warnings and
\* leaves checks and missing_items alone, in every section; no other line
\* touches warnings, so warnings counts the "- WARNING:" lines read, and the
\* result carries them.
C22_WarningLine ==
  [][/\ AtLine =>
          LET t == Trim(lines[idx])
          IN  /\ StartsWith(t, WarningPrefix) =>
                   /\ warnings' = Append(warnings,
                                         Trim(SubSeq(t, Len(WarningPrefix) + 1, Len(t))))
                   /\ UNCHANGED <<checks, missingItems, currentSection>>
              /\ ~StartsWith(t, WarningPrefix) => warnings' = warnings
              /\ Len(warnings') = WarningLineCount(idx)
     /\ (pc = "loop" /\ pc' = "done") =>
          /\ result'[1].warnings = warnings
          /\ Len(warnings) = WarningLineCount(Len(lines))]_vars

C22_Witness ==
  /\ LogResultDone
  /\ currentSection = "approved"
  /\ result[1].warnings = <<<<"L", "o", "w", " ", "c", "o", "n", "f", "i", "d", "e", "n", "c", "e">>, <<"L", "o", "w", " ", "c", "o", "n", "f", "i", "d", "e", "n", "c", "e">>>>
  /\ result[1].checks = <<>>
  /\ result[1].missing_items = <<>>

\* C30: in every result produced from log text a missing or unclear check has
\* a null found_value, every check has comment "", and a present check has a
\* found_value that is null or a non-empty string.
C30_FoundValueAndComment ==
  LogResultDone =>
    \A i \in 1..Len(result[1].checks) :
      LET c == result[1].checks[i]
      IN  /\ c.comment = EmptyString
          /\ c.status \in {"missing", "unclear"} => c.found_value = Null
          /\ c.status = "present" => c.found_value # Some(EmptyString)

C30_Witness ==
  /\ LogResultDone
  /\ Len(result[1].checks) = 1
  /\ result[1].checks[1] = [requirement |-> <<"P", "a", "i", "d", ":">>, status |-> "present",
                            found_value |-> Null, comment |-> EmptyString]

\* C23 as stated: a response for an analysis started before a reset() never
\* becomes the held result.  An analysis starts only with an input present
\* and the inputs are cleared only by handlers that call reset(), so while no
\* input is present every pending request was started before the last
\* reset(): a step that consumes one then leaves result null.
C23_StaleResponseDropped ==
  [][(Len(pending') < Len(pending) /\ ~HasInput) => result' = Null]_vars

\* C24 as stated: result and error are never both non-null, and both are null
\* while isLoading is true.
C24_ResultErrorExclusive ==
  /\ ~(result # Null /\ error # Null)
  /\ isLoading => (result = Null /\ error = Null)

\* C25 as stated: isLoading is true exactly while a request is in flight, and
\* at most one request is in flight.
C25_SingleFlight ==
  /\ isLoading <=> pending # <<>>
  /\ Len(pending) <= 1

\* C26: every continuation that runs sets isLoading to false, whether it
\* stored a result or an error, and when every pending fetch eventually
\* resolves or rejects a loading state is always followed by one that is not
\* loading.
C26_LoadingEnds ==
  /\ [][Len(pending') < Len(pending) => ~isLoading']_vars
  /\ isLoading ~> ~isLoading

C26_Witness ==
  /\ ~isLoading
  /\ pending = <<>>
  /\ error = Some("Failed to fetch")
  /\ result = Null
  /\ HasInput

\* The results the line parser builds from the log reports among the bodies.
LogResultValues ==
  {Normalize(b, type).value :
     b \in {r \in ResponseBodies : IsLogReport(r) /\ LogsIsString(r)},
     type \in InvoiceTypes}

\* C27 as stated: a displayed result that was produced from log text carries
\* the invoice type selected in the App.
C27_TypeMatchesSelection ==
  (result # Null /\ HasResultShape(result[1]) /\ result[1] \in LogResultValues)
    => result[1].invoice_type = invoiceType

\* What the claim has either entry point store for a body: its normal form.
NormalizedStore(req, body) ==
  LET n == Normalize(body, req.invoiceType)
  IN  IF n.ok THEN {Some(n.value)} ELSE {}

\* What each entry point stores for a body: analyzeInvoice the body itself,
\* analyzeInvoiceUrl its normal form.
StoredValue(req, body) ==
  IF req.kind = "url" THEN NormalizedStore(req, body) ELSE {Some(body)}

\* C28 as stated: whichever entry point started the request, the result its
\* continuation stores is the normal form of the response body, so both store
\* the same value for the same body.
C28_BothPathsNormalize ==
  [][\A i \in 1..Len(pending) :
       (pending' = RemoveAt(pending, i) /\ result' # Null /\ result' # result) =>
         \E b \in ResponseBodies : result' \in NormalizedStore(pending[i], b)]_vars

\* C28 amended: analyzeInvoiceUrl stores the normal form of the body and
\* analyzeInvoice stores the body as received; a {status, logs, summary} body
\* goes through the line parser on the URL path only.
C28_OnlyUrlPathNormalizes ==
  [][\A i \in 1..Len(pending) :
       (pending' = RemoveAt(pending, i) /\ result' # Null /\ result' # result) =>
         \E b \in ResponseBodies : result' \in StoredValue(pending[i], b)]_vars

C28_Witness ==
  /\ result # Null
  /\ IsLogReport(result[1])
  /\ selectedFile # Null
  /\ ~isLoading

\* C29: a selected file and a non-empty invoice URL never coexist, and a step
\* that starts an analysis starts exactly one: on the URL path when the
\* trimmed URL is non-empty, on the file path when it is empty and a file is
\* selected.
C29_OneInputOnePath ==
  /\ ~(selectedFile # Null /\ invoiceUrl # EmptyString)
  /\ [][/\ ~(selectedFile' # Null /\ invoiceUrl' # EmptyString)
        /\ Len(pending') > Len(pending) =>
             /\ HasInput
             /\ Len(pending') = Len(pending) + 1
             /\ pending'[Len(pending')].kind =
                  (IF Trim(invoiceUrl) # EmptyString THEN "url" ELSE "file")
             /\ pending'[Len(pending')].kind = "file" => selectedFile # Null
             /\ SubSeq(pending', 1, Len(pending)) = pending]_vars

C29_Witness ==
  /\ Len(pending) = 2
  /\ pending[1].kind = "file"
  /\ pending[2].kind = "url"
  /\ selectedFile = Null
  /\ invoiceUrl = <<"u">>
  /\ isLoading

====
